---- MODULE Spec2Model ----
(***************************************************************************)
(* State-machine model of the adya quiz application: the subject-scoped   *)
(* quiz session engine (modules/quiz_engine.py), the grading / summary    *)
(* calls and history persistence (utils.py, sheets_db.py) and the         *)
(* question maintenance page (pages/Question_Maintenance.py).             *)
(*                                                                         *)
(* Every action is one complete Streamlit script run: the run that        *)
(* follows a page load or a button click, from the top of the script to   *)
(* its st.stop() / st.rerun().                                             *)
(***************************************************************************)
EXTENDS Integers, Sequences, FiniteSets, TLC

VARIABLES HAS_SHEETS, sheetQ, fileQ, sess, sheetHist, fileHist, summarySaves, op,
          call, ret, clock, histCache

vars == <<HAS_SHEETS, sheetQ, fileQ, sess, sheetHist, fileHist, summarySaves, op,
          call, ret, clock, histCache>>

(***************************************************************************)
(* Bounds of the model.                                                    *)
(***************************************************************************)
\* Largest number of records the two history stores hold together.
MaxHist == 2

(***************************************************************************)
(* Values.                                                                 *)
(***************************************************************************)
\* Python's None.
None == [type |-> "None"]

\* Marker for "the call raised an exception".
Raise == [type |-> "Raise"]

\* An empty dict.
EmptyDict == [x \in {} |-> None]

\* dict[k] = v
DictSet(d, k, v) == [x \in (DOMAIN d) \cup {k} |-> IF x = k THEN v ELSE d[x]]

\* The subjects a quiz page is opened for (the subject argument of run_quiz).
Subjects == {"Chemistry"}

\* utils.Question, reduced to the fields the engine reads.
Q1 == [id |-> "q1", marks |-> 2]
Q2 == [id |-> "q2", marks |-> 1]

\* Contents a question source (worksheet or JSON file) can have; a source
\* is not de-duplicated, and an absent file or empty worksheet is <<>>.
BankOptions == {<<>>, <<Q1>>, <<Q1, Q2>>, <<Q1, Q1>>}

\* Contents of the local question file on a deployment that has the
\* worksheet configured (the file is then only the fallback).
FallbackOptions == {<<>>, <<Q1>>}

\* Question lists a maintenance upload can carry.
UploadOptions == {<<Q1>>, <<Q1, Q2>>}

\* Texts the user can have in the answer widget, as character sequences.
AnswerInputs == {<<>>, <<" ">>, <<" ", "a", " ">>}

\* Python / JSON values other than None: every value carries its type, a
\* string its text as a sequence of characters.
Str(t) == [type |-> "str", s |-> t]
Num(n) == [type |-> "int", n |-> n]
List(x) == [type |-> "list", items |-> x]
Dict(f) == [type |-> "dict", d |-> f]

\* Python truthiness, as tested by "not parsed" and by "x or []".
falsy(v) ==
    \/ v.type = "None"
    \/ v.type = "dict" /\ DOMAIN v.d = {}
    \/ v.type = "list" /\ v.items = <<>>
    \/ v.type = "str" /\ v.s = <<>>
    \/ v.type = "int" /\ v.n = 0

\* Characters of a text.  A text is a sequence of characters; a JSON
\* document, a piece of prose, a word and the Markdown code fence each
\* stand as one character of the alphabet.
Whitespace == {" ", "\t", "\n"}

\* The Markdown code fence (three backquotes) and the word that can follow
\* an opening fence.
Fence == "<fence>"
JsonWord == "json"

\* JSON documents the models can reply with, one character each.
DocMinimal == "{\"verdict\":\"Correct\",\"score_band\":\"2\"}"
DocFull == "{\"verdict\":\"Correct\",\"score_band\":\"1\",\"feedback\":\"f\",\"model_answer\":\"m\",\"why\":\"w\",\"misconceptions\":[\"x\"],\"next_steps\":[\"y\"],\"video_queries\":[\"gold foil\"]}"
DocNullQueries == "{\"verdict\":\"Incorrect\",\"video_queries\":null}"
DocNumberQueries == "{\"verdict\":\"Incorrect\",\"video_queries\":5}"
DocNumberInQueries == "{\"verdict\":\"Incorrect\",\"video_queries\":[1]}"
DocSummary == "{\"overall_summary\":\"ok\"}"
DocArray == "[1]"
DocEmptyArray == "[]"
DocEmptyObject == "{}"
DocNull == "null"
DocZero == "0"
DocNumber == "5"
DocString == "\"ok\""

JsonDocuments == {DocMinimal, DocFull, DocNullQueries, DocNumberQueries,
                  DocNumberInQueries, DocSummary, DocArray, DocEmptyArray,
                  DocEmptyObject, DocNull, DocZero, DocNumber, DocString}

\* Reply texts that are not JSON: prose, and a truncated object.
ProseReply == "Sorry, I cannot grade this."
SummaryProse == "Here is your summary"
TruncatedReply == "{\"verdict\":\"Corr"

\* Raw reply texts of the feedback model.
FeedbackReplies == {<<DocMinimal>>, <<ProseReply>>, <<DocArray>>}

\* Raw reply texts of the summary model.
SummaryReplies == {<<DocSummary>>, <<SummaryProse>>, <<DocArray>>}

(***************************************************************************)
(* Pure helpers.                                                           *)
(***************************************************************************)
RECURSIVE lstrip(_)
lstrip(t) == IF t # <<>> /\ Head(t) \in Whitespace THEN lstrip(Tail(t)) ELSE t

RECURSIVE rstrip(_)
rstrip(t) ==
    IF t # <<>> /\ t[Len(t)] \in Whitespace THEN rstrip(SubSeq(t, 1, Len(t) - 1)) ELSE t

\* str.strip()
strip(t) == rstrip(lstrip(t))

\* str.startswith / str.endswith
startswith(t, p) == Len(t) >= Len(p) /\ SubSeq(t, 1, Len(p)) = p
endswith(t, p) == Len(t) >= Len(p) /\ SubSeq(t, Len(t) - Len(p) + 1, Len(t)) = p

\* The value each JSON document decodes to.
json_value(doc) ==
    CASE doc = DocMinimal ->
             Dict([verdict |-> Str(<<"Correct">>), score_band |-> Str(<<"2">>)])
      [] doc = DocFull ->
             Dict([verdict |-> Str(<<"Correct">>), score_band |-> Str(<<"1">>),
                   feedback |-> Str(<<"f">>), model_answer |-> Str(<<"m">>),
                   why |-> Str(<<"w">>),
                   misconceptions |-> List(<<Str(<<"x">>)>>),
                   next_steps |-> List(<<Str(<<"y">>)>>),
                   video_queries |-> List(<<Str(<<"gold", " ", "foil">>)>>)])
      [] doc = DocNullQueries ->
             Dict([verdict |-> Str(<<"Incorrect">>), video_queries |-> None])
      [] doc = DocNumberQueries ->
             Dict([verdict |-> Str(<<"Incorrect">>), video_queries |-> Num(5)])
      [] doc = DocNumberInQueries ->
             Dict([verdict |-> Str(<<"Incorrect">>), video_queries |-> List(<<Num(1)>>)])
      [] doc = DocSummary -> Dict([overall_summary |-> Str(<<"ok">>)])
      [] doc = DocArray -> List(<<Num(1)>>)
      [] doc = DocEmptyArray -> List(<<>>)
      [] doc = DocEmptyObject -> Dict(EmptyDict)
      [] doc = DocNull -> None
      [] doc = DocZero -> Num(0)
      [] doc = DocNumber -> Num(5)
      [] doc = DocString -> Str(<<"ok">>)
      [] OTHER -> Raise

\* json.loads: one JSON document, with any whitespace around it, decodes to
\* its value; every other text raises.
json_loads(text) ==
    LET t == strip(text) IN
    IF Len(t) = 1 THEN json_value(t[1]) ELSE Raise

\* utils.safe_json_loads: the text is trimmed, an opening fence (with or
\* without the word json) and a closing fence are cut off, and the rest is
\* decoded; None when decoding raises.
safe_json_loads(text) ==
    LET t1 == strip(text)
        t2 == IF startswith(t1, <<Fence, JsonWord>>) THEN SubSeq(t1, 3, Len(t1))
              ELSE IF startswith(t1, <<Fence>>) THEN SubSeq(t1, 2, Len(t1))
              ELSE t1
        t3 == IF endswith(t2, <<Fence>>) THEN SubSeq(t2, 1, Len(t2) - 1) ELSE t2
        decoded == json_loads(strip(t3))
    IN IF decoded = Raise THEN None ELSE decoded

\* The largest number of video links a feedback carries (vqs[:6]).
MaxVideoLinks == 6

\* The fixed search template of youtube_search_link.
SearchTemplate == "https://www.youtube.com/results?search_query="

\* re.sub(r"\s+", "+", t): every run of whitespace becomes one "+".
RECURSIVE sub_whitespace(_)
sub_whitespace(t) ==
    IF t = <<>> THEN <<>>
    ELSE IF Head(t) \in Whitespace THEN <<"+">> \o sub_whitespace(lstrip(t))
    ELSE <<Head(t)>> \o sub_whitespace(Tail(t))

\* utils.youtube_search_link
youtube_search_link(query) == <<SearchTemplate>> \o sub_whitespace(strip(query))

\* Faulty variant of fallback_feedback: the raw reply is not kept.
fallback_feedback_drops_reply(content) ==
    Dict([verdict |-> Str(<<"Partly correct">>),
          score_band |-> Str(<<"0">>),
          feedback |-> Str(<<"Feedback could not be parsed as JSON. Showing raw response below.">>),
          model_answer |-> Str(<<>>),
          why |-> Str(<<>>),
          misconceptions |-> List(<<>>),
          next_steps |-> List(<<>>),
          video_queries |-> List(<<>>)])

\* The feedback substituted for a reply that gives no usable value
\* (utils.py lines 319-328).
fallback_feedback(content) ==
    Dict([verdict |-> Str(<<"Partly correct">>),
          score_band |-> Str(<<"0">>),
          feedback |-> Str(<<"Feedback could not be parsed as JSON. Showing raw response below.">>),
          model_answer |-> Str(<<>>),
          why |-> Str(content),
          misconceptions |-> List(<<>>),
          next_steps |-> List(<<>>),
          video_queries |-> List(<<>>)])

\* dict.get(k, default)
DictGet(d, k, default) == IF k \in DOMAIN d THEN d[k] ELSE default

\* Faulty variant of video_links: the list of queries is not cut short.
video_links_uncut(vqs) ==
    [i \in 1..Len(vqs) |->
        Dict([query |-> vqs[i], url |-> Str(youtube_search_link(vqs[i].s))])]

\* The list comprehension of line 331 over a list of strings.
video_links(vqs) ==
    [i \in 1..(IF Len(vqs) < MaxVideoLinks THEN Len(vqs) ELSE MaxVideoLinks) |->
        Dict([query |-> vqs[i], url |-> Str(youtube_search_link(vqs[i].s))])]

\* Lines 318-333 of call_openai_for_feedback on the decoded reply: a falsy
\* value is replaced by the fallback feedback; parsed.get raises on a value
\* that is not a dict; slicing raises on video_queries that is a number or
\* a dict, and query.strip() on a query that is not a string; a string in
\* place of the list is sliced and iterated character by character.  The
\* result is the decoded dict itself with video_links added.
normalize_feedback(parsed, content) ==
    LET p == IF falsy(parsed) THEN fallback_feedback(content) ELSE parsed IN
    IF p.type # "dict" THEN Raise
    ELSE LET got == DictGet(p.d, "video_queries", List(<<>>))
             vqs == IF falsy(got) THEN <<>>
                    ELSE IF got.type = "list" THEN got.items
                    ELSE [i \in 1..Len(got.s) |-> Str(<<got.s[i]>>)]
         IN IF ~falsy(got) /\ got.type \notin {"list", "str"} THEN Raise
            ELSE IF \E i \in 1..Len(vqs) : i <= MaxVideoLinks /\ vqs[i].type # "str"
            THEN Raise
            ELSE Dict(DictSet(p.d, "video_links", List(video_links(vqs))))

\* utils.call_openai_for_feedback: upstreamOk is whether the completion
\* request returns, content the reply text.
call_openai_for_feedback(upstreamOk, content) ==
    IF ~upstreamOk THEN Raise
    ELSE normalize_feedback(safe_json_loads(content), content)

\* The summary substituted for a reply that gives no usable value
\* (utils.py lines 377-386).
fallback_summary(content) ==
    Dict([overall_summary |-> Str(<<"Summary could not be parsed as JSON. Raw output provided.">>),
          strengths |-> List(<<>>),
          gaps |-> List(<<>>),
          misconceptions_to_fix |-> List(<<>>),
          key_learning_points |-> List(<<>>),
          recommended_next_topics |-> List(<<>>),
          raw |-> Str(content)])

\* Faulty variant of normalize_summary: a value that is not a dict raises.
normalize_summary_strict(parsed, content) ==
    IF falsy(parsed) THEN fallback_summary(content)
    ELSE IF parsed.type # "dict" THEN Raise ELSE parsed

\* Lines 376-387 of call_openai_for_final_summary on the decoded reply: a
\* falsy value is replaced by the fallback summary, every other value is
\* returned as it is.
normalize_summary(parsed, content) ==
    IF falsy(parsed) THEN fallback_summary(content) ELSE parsed

\* utils.call_openai_for_final_summary
call_openai_for_final_summary(upstreamOk, content) ==
    IF ~upstreamOk THEN Raise
    ELSE normalize_summary(safe_json_loads(content), content)

(***************************************************************************)
(* The final score (quiz_engine.py lines 103-120).                         *)
(***************************************************************************)
\* The decimal digits, the characters \d matches.
DigitChars == <<"0", "1", "2", "3", "4", "5", "6", "7", "8", "9">>

IsDigit(c) == \E i \in 1..Len(DigitChars) : DigitChars[i] = c

DigitValue(c) == (CHOOSE i \in 1..Len(DigitChars) : DigitChars[i] = c) - 1

\* int(t) of a text made of digits.
RECURSIVE int_of_digits(_)
int_of_digits(t) ==
    IF t = <<>> THEN 0
    ELSE Len(DigitChars) * int_of_digits(SubSeq(t, 1, Len(t) - 1)) + DigitValue(t[Len(t)])

\* The decimal text of a natural number.
RECURSIVE decimal(_)
decimal(n) ==
    IF n < Len(DigitChars) THEN <<DigitChars[n + 1]>>
    ELSE Append(decimal(n \div Len(DigitChars)), DigitChars[(n % Len(DigitChars)) + 1])

\* str(v) of a string, an integer or None.
str_of(v) ==
    CASE v.type = "str" -> v.s
      [] v.type = "int" -> IF v.n < 0 THEN <<"-">> \o decimal(-v.n) ELSE decimal(v.n)
      [] v.type = "None" -> <<"N", "o", "n", "e">>

\* The digits a text starts with.
RECURSIVE leading_digits(_)
leading_digits(t) ==
    IF t # <<>> /\ IsDigit(Head(t)) THEN <<Head(t)>> \o leading_digits(Tail(t)) ELSE <<>>

\* Faulty variant of first_match: only digits at the start of the text count.
first_match_at_start(t) == leading_digits(t)

\* re.findall(r"\d+", t)[0], the first run of digits anywhere in the text;
\* <<>> when findall returns no match.
RECURSIVE first_match(_)
first_match(t) ==
    IF t = <<>> THEN <<>>
    ELSE IF IsDigit(Head(t)) THEN leading_digits(t)
    ELSE first_match(Tail(t))

\* The running totals of the loop.
Totals(total_score, total_marks) ==
    [type |-> "totals", total_score |-> total_score, total_marks |-> total_marks]

\* Faulty variant of score_item: an item without digits in its band adds
\* nothing to total_marks either.
score_item_skips_unmatched(item, acc) ==
    LET fb == DictGet(item, "feedback", Dict(EmptyDict)) IN
    IF fb.type # "dict" THEN acc
    ELSE LET sb == DictGet(fb.d, "score_band", Str(<<"0">>))
             matches == first_match(str_of(sb))
         IN IF matches = <<>> THEN acc
            ELSE Totals(acc.total_score + int_of_digits(matches),
                        acc.total_marks + DictGet(item, "marks", 0))

\* Faulty variant of score_item: the body is not wrapped in try / except.
score_item_unguarded(item, acc) ==
    LET fb == DictGet(item, "feedback", Dict(EmptyDict)) IN
    IF fb.type # "dict" THEN Raise
    ELSE LET sb == DictGet(fb.d, "score_band", Str(<<"0">>))
             matches == first_match(str_of(sb))
             total_score == IF matches # <<>>
                            THEN acc.total_score + int_of_digits(matches)
                            ELSE acc.total_score
         IN Totals(total_score, acc.total_marks + DictGet(item, "marks", 0))

\* One pass of the loop body (lines 107-114).  feedback.get raises on a
\* feedback that is not a dict, and the bare except then skips the item:
\* neither total is changed.
score_item(item, acc) ==
    LET fb == DictGet(item, "feedback", Dict(EmptyDict)) IN
    IF fb.type # "dict" THEN acc
    ELSE LET sb == DictGet(fb.d, "score_band", Str(<<"0">>))
             matches == first_match(str_of(sb))
             total_score == IF matches # <<>>
                            THEN acc.total_score + int_of_digits(matches)
                            ELSE acc.total_score
         IN Totals(total_score, acc.total_marks + DictGet(item, "marks", 0))

\* The loop over the attempt log (lines 104-114); an exception leaving the
\* loop body would end the run.
RECURSIVE score_log(_)
score_log(log) ==
    IF log = <<>> THEN Totals(0, 0)
    ELSE LET acc == score_log(SubSeq(log, 1, Len(log) - 1)) IN
         IF acc = Raise THEN Raise ELSE score_item(log[Len(log)], acc)

\* Python floats are IEEE 754 doubles: a significand of 53 bits.
Precision == 53

\* A positive double is m * 2^e, m a sequence of Precision bits (most
\* significant first, the first one 1); 0.0 has no bits.
Float(m, e) == [m |-> m, e |-> e]
FloatZero == Float(<<>>, 0)

\* The binary digits of a natural number, <<>> for 0.
RECURSIVE bits_of(_)
bits_of(n) == IF n = 0 THEN <<>> ELSE Append(bits_of(n \div 2), n % 2)

\* The number a sequence of bits stands for.
RECURSIVE bits_value(_)
bits_value(b) ==
    IF b = <<>> THEN 0 ELSE 2 * bits_value(SubSeq(b, 1, Len(b) - 1)) + b[Len(b)]

\* The bit of weight 2^i in b.
bit_at(b, i) == IF i < Len(b) THEN b[Len(b) - i] ELSE 0

\* b without its leading zeros.
RECURSIVE significant(_)
significant(b) == IF b # <<>> /\ Head(b) = 0 THEN significant(Tail(b)) ELSE b

\* Whether adding a and b carries into the bit of weight 2^i: some lower
\* position generates a carry and every position between passes it on.
carry_into(a, b, i) ==
    \E j \in 0..(i - 1) :
        /\ bit_at(a, j) + bit_at(b, j) = 2
        /\ \A k \in (j + 1)..(i - 1) : bit_at(a, k) + bit_at(b, k) >= 1

\* a + b
bits_add(a, b) ==
    LET n == (IF Len(a) > Len(b) THEN Len(a) ELSE Len(b)) + 1 IN
    significant([i \in 1..n |->
        (bit_at(a, n - i) + bit_at(b, n - i)
           + (IF carry_into(a, b, n - i) THEN 1 ELSE 0)) % 2])

\* b + 1; one bit longer when every bit of b is 1.
bits_inc(b) == bits_add(b, <<1>>)

\* a * k, k given by its bits
RECURSIVE bits_mul(_, _)
bits_mul(a, k) ==
    IF k = <<>> THEN <<>>
    ELSE LET doubled == Append(bits_mul(a, SubSeq(k, 1, Len(k) - 1)), 0) IN
         IF k[Len(k)] = 1 THEN bits_add(doubled, a) ELSE significant(doubled)

\* Rounding to nearest, ties to even: m holds the Precision leading bits of
\* the exact result, e the weight of its last bit, and rest says whether
\* what was cut off is below, equal to or above half of that last bit.
round_to_nearest(m, e, rest) ==
    LET up == rest = "above" \/ (rest = "half" /\ m[Len(m)] = 1)
        m2 == IF up THEN bits_inc(m) ELSE m
    IN IF Len(m2) > Precision THEN Float(SubSeq(m2, 1, Precision), e + 1)
       ELSE Float(m2, e)

\* Binary long division of r / p continued until acc holds Precision
\* significant bits; n counts the bits produced after the binary point.
RECURSIVE div_bits(_, _, _, _)
div_bits(r, p, acc, n) ==
    IF Len(acc) = Precision THEN [m |-> acc, n |-> n, r |-> r]
    ELSE LET bit == IF 2 * r >= p THEN 1 ELSE 0 IN
         div_bits(2 * r - bit * p, p,
                  IF acc = <<>> /\ bit = 0 THEN <<>> ELSE Append(acc, bit), n + 1)

\* a / p on two integers, a >= 0 and p > 0: the double nearest to the
\* quotient.
float_div(a, p) ==
    IF a = 0 THEN FloatZero
    ELSE LET q == div_bits(a % p, p, bits_of(a \div p), 0)
             rest == IF 2 * q.r > p THEN "above"
                     ELSE IF 2 * q.r = p THEN "half" ELSE "below"
         IN round_to_nearest(q.m, -q.n, rest)

\* x * k on a double and a positive integer: the double nearest to the
\* product.
float_mul(x, k) ==
    IF x.m = <<>> THEN FloatZero
    ELSE LET product == bits_mul(x.m, bits_of(k))
             cut == Len(product) - Precision
             rest == IF cut = 0 \/ product[Precision + 1] = 0 THEN "below"
                     ELSE IF \E i \in (Precision + 2)..Len(product) : product[i] = 1
                     THEN "above" ELSE "half"
         IN round_to_nearest(SubSeq(product, 1, Precision), x.e + cut, rest)

\* int(x) on a double that is not negative: the fraction is cut off.
int_of_float(x) ==
    IF x.m = <<>> \/ Precision + x.e <= 0 THEN 0
    ELSE IF x.e >= 0 THEN bits_value(x.m \o [i \in 1..x.e |-> 0])
    ELSE bits_value(SubSeq(x.m, 1, Precision + x.e))

\* percent = int((total_score / total_marks) * 100)  (line 117)
percent(total_score, total_marks) ==
    int_of_float(float_mul(float_div(total_score, total_marks), 100))

\* Lines 115-119: the header shown for the totals, with a percentage only
\* when total_marks is positive.
score_header(total_score, total_marks) ==
    IF total_marks > 0
    THEN [type |-> "score", total_score |-> total_score, total_marks |-> total_marks,
          percent |-> percent(total_score, total_marks)]
    ELSE [type |-> "no score", total_score |-> total_score, total_marks |-> total_marks]

\* Lines 103-119: the totals of the attempt log and the header shown.
final_score(log) ==
    LET t == score_log(log) IN
    IF t = Raise THEN Raise ELSE score_header(t.total_score, t.total_marks)

\* utils.load_questions: the worksheet when it can be read and is not
\* empty, the subject's JSON file otherwise.
load_questions(s, remoteOk) ==
    IF HAS_SHEETS /\ remoteOk /\ sheetQ[s] # <<>> THEN sheetQ[s] ELSE fileQ[s]

(***************************************************************************)
(* Session state (st.session_state keys prefixed with the subject).        *)
(***************************************************************************)
\* The values lines 54-63 give the five keys when they are absent.
InitSession == [idx |-> 0, answers |-> EmptyDict, feedback |-> EmptyDict,
                qa_log |-> <<>>, final_summary |-> None]

\* Faulty variant of already_has_feedback: a stored feedback is not seen.
already_has_feedback_forgets(s, qid) == FALSE

\* already_has_feedback (lines 76-77)
already_has_feedback(s, qid) == qid \in DOMAIN sess[s].feedback

\* Faulty variant of submit_disabled: the empty-answer test is left out.
submit_disabled_feedback_only(s, qid, ans_clean) == already_has_feedback(s, qid)

\* Faulty variant of submit_disabled: the existing-feedback test is left out.
submit_disabled_empty_only(s, qid, ans_clean) == ans_clean = <<>>

\* submit_disabled (line 184)
submit_disabled(s, qid, ans_clean) == (ans_clean = <<>>) \/ already_has_feedback(s, qid)

\* Faulty variant of next_disabled: the button is always enabled.
next_disabled_never(s, qid) == FALSE

\* next_disabled (line 202)
next_disabled(s, qid) == ~already_has_feedback(s, qid)

\* Faulty variant of record_answer: the answer is not stored.
record_answer_skipped(answers, qid, ans_clean) == answers

\* st.session_state[answers][qid] = ans_clean (line 186)
record_answer(answers, qid, ans_clean) == DictSet(answers, qid, ans_clean)

\* Faulty variant of advance: the index goes up by two.
advance_skipping(idx) == idx + 2

\* Faulty variant of advance: the index is decremented.
advance_backwards(idx) == idx - 1

\* st.session_state[idx] += 1 (line 204)
advance(idx) == idx + 1

\* Faulty variant of summary_missing: the null check is left out.
summary_missing_always(s) == TRUE

\* The null check guarding summary generation (line 87).
summary_missing(s) == sess[s].final_summary = None

\* Faulty variant of restart_quiz: the attempt log is not cleared.
restart_keeps_log(st) ==
    [st EXCEPT !.idx = 0, !.answers = EmptyDict, !.feedback = EmptyDict,
               !.final_summary = None]

\* The five assignments of "Restart Quiz" (lines 149-153).
restart_quiz(st) ==
    [st EXCEPT !.idx = 0, !.answers = EmptyDict, !.feedback = EmptyDict,
               !.qa_log = <<>>, !.final_summary = None]

(***************************************************************************)
(* History persistence.                                                    *)
(***************************************************************************)
HistLen == Len(sheetHist) + Len(fileHist)

\* datetime.datetime.now().isoformat(), the reading of the clock.
now == clock

\* json.dumps of a content dict into the content cell of a row, and the
\* json.loads that reads the cell back: for dicts of strings, lists and
\* dicts the text stands for the same value.
json_dumps(content_dict) == [json |-> content_dict]
json_loads_cell(cell) == cell.json

\* sheets_db.append_history: the timestamp is put into the content, and the
\* row (timestamp, type, content as JSON) is appended to the History
\* worksheet.
append_history(record_type, content_dict) ==
    Append(sheetHist, [timestamp |-> now, type |-> record_type,
                       content |-> json_dumps(DictSet(content_dict, "timestamp", now))])

\* Faulty variant of local_append: the file is rewritten without the record.
local_append_dropped(record, readOk) ==
    IF readOk THEN fileHist ELSE <<>>

\* The local-file branch shared by save_feedback_to_history and
\* save_summary_to_history: the file is read (an unreadable file counts as
\* an empty history), the record appended and the file rewritten.
local_append(record, readOk) ==
    Append(IF readOk THEN fileHist ELSE <<>>, record)

\* The outcomes of one save_*_to_history call: the two stores afterwards,
\* whether the get_history cache was cleared, whether the remote append
\* failed with a warning, and whether the call raised.  The worksheet is
\* tried first when it is configured; the file is written when it is not,
\* or when the remote append failed; only a failing file write raises.
SaveOutcomes(record_type, content_dict, file_record) ==
    {[sheet |-> append_history(record_type, content_dict), file |-> fileHist,
      cleared |-> TRUE, warned |-> FALSE, raised |-> FALSE] :
         x \in {y \in {1} : HAS_SHEETS}}
    \cup {[sheet |-> sheetHist, file |-> local_append(file_record, readOk),
           cleared |-> FALSE, warned |-> HAS_SHEETS, raised |-> FALSE] :
              readOk \in BOOLEAN}
    \cup {[sheet |-> sheetHist, file |-> fileHist,
           cleared |-> FALSE, warned |-> HAS_SHEETS, raised |-> TRUE]}

\* utils.save_feedback_to_history
save_feedback_to_history(q, answer, feedback, s) ==
    LET record == [subject |-> Str(<<s>>), question_id |-> q.id,
                   student_answer |-> answer, feedback |-> feedback]
    IN SaveOutcomes("question", record,
                    [subject |-> Str(<<s>>), question_id |-> q.id,
                     student_answer |-> answer, feedback |-> feedback,
                     timestamp |-> now, type |-> "question"])

\* utils.save_summary_to_history
save_summary_to_history(summary) ==
    SaveOutcomes("summary", summary.d,
                 [timestamp |-> now, type |-> "summary", content |-> summary])

\* Faulty variant of cache_after: the cached result survives the write.
cache_after_kept(o) == histCache

\* get_history.clear() after a write to the worksheet.
cache_after(o) == IF o.cleared THEN None ELSE histCache

(***************************************************************************)
(* Initial state: a fresh browser session on a deployment whose question  *)
(* sources hold any of the bank contents.                                  *)
(***************************************************************************)
Init ==
    /\ HAS_SHEETS \in BOOLEAN
    /\ fileQ \in [Subjects -> IF HAS_SHEETS THEN FallbackOptions ELSE BankOptions]
    /\ sheetQ \in [Subjects -> IF HAS_SHEETS THEN BankOptions ELSE {<<>>}]
    /\ sess = [s \in Subjects |-> InitSession]
    /\ sheetHist = <<>>
    /\ fileHist = <<>>
    /\ summarySaves = [s \in Subjects |-> 0]
    /\ op = [name |-> "start", subject |-> "-", qid |-> "-", ans |-> <<>>,
             graded |-> FALSE, summarized |-> FALSE,
             failure |-> "-", warned |-> FALSE]
    /\ call = [fn |-> "-"]
    /\ ret = None
    /\ clock = 0
    /\ histCache = None

\* The record of the run just made: which handler ran, for which subject,
\* on which question id and with which answer text, and which model calls
\* it issued.
OpRec(name, s, qid, ans, graded, summarized) ==
    [name |-> name, subject |-> s, qid |-> qid, ans |-> ans, graded |-> graded,
     summarized |-> summarized, failure |-> "-", warned |-> FALSE]

\* The record of a run in which something failed: failure names what the
\* except branch caught ("upstream" for the model call, "tag" for the
\* subject tag of the summary, "save" for the history write), warned tells
\* that the worksheet append failed and st.warning was shown.
OpFailed(rec, failure, warned) == [rec EXCEPT !.failure = failure, !.warned = warned]

\* The outcome of a save as the run's record shows it.
OpSaved(rec, o) == OpFailed(rec, IF o.raised THEN "save" ELSE "-", o.warned)

(***************************************************************************)
(* run_quiz: the completion view (idx >= len(QUESTIONS)).                  *)
(***************************************************************************)
\* Faulty variant of summary_call_failed: a placeholder summary is cached.
summary_call_failed_caches(s) ==
    /\ sess' = [sess EXCEPT ![s].final_summary = fallback_summary(<<>>)]
    /\ UNCHANGED <<sheetHist, fileHist, histCache, summarySaves>>

\* Lines 97-99 after call_openai_for_final_summary raised: the error is
\* shown and the run stops; nothing was assigned.
summary_call_failed(s) ==
    UNCHANGED <<sess, sheetHist, fileHist, histCache, summarySaves>>

\* What line 91 can give: the results of call_openai_for_final_summary over
\* the replies of the summary model, the raised upstream error among them.
SummaryResults ==
    {call_openai_for_final_summary(upstreamOk, content) :
        upstreamOk \in BOOLEAN, content \in SummaryReplies}

\* Lines 84-101 of a run that reaches the completion view.
CompletionView(s, name) ==
    IF ~summary_missing(s)
    THEN /\ UNCHANGED <<sess, sheetHist, fileHist, histCache, summarySaves>>
         /\ op' = OpRec(name, s, "-", <<>>, FALSE, FALSE)
    ELSE /\ HistLen < MaxHist
         /\ \E summary \in SummaryResults :
              LET rec == OpRec(name, s, "-", <<>>, FALSE, TRUE)
              IN
              IF summary = Raise
              THEN /\ summary_call_failed(s)
                   /\ op' = OpFailed(rec, "upstream", FALSE)
              ELSE IF summary.type # "dict"
              THEN \* summary["subject"] = subject raises after the assignment
                   /\ sess' = [sess EXCEPT ![s].final_summary = summary]
                   /\ op' = OpFailed(rec, "tag", FALSE)
                   /\ UNCHANGED <<sheetHist, fileHist, histCache, summarySaves>>
              ELSE LET tagged == Dict(DictSet(summary.d, "subject", Str(<<s>>))) IN
                   /\ sess' = [sess EXCEPT ![s].final_summary = tagged]
                   /\ \E o \in save_summary_to_history(tagged) :
                        /\ sheetHist' = o.sheet
                        /\ fileHist' = o.file
                        /\ histCache' = cache_after(o)
                        /\ op' = OpSaved(rec, o)
                        /\ summarySaves' = [summarySaves EXCEPT ![s] =
                                              IF o.raised THEN @ ELSE @ + 1]

\* A run of the quiz page with no button pressed (page load, re-entry).
View(s) ==
    /\ \E remoteOk \in BOOLEAN :
         LET QUESTIONS == load_questions(s, remoteOk) IN
         IF QUESTIONS # <<>> /\ sess[s].idx >= Len(QUESTIONS)
         THEN CompletionView(s, "view")
         ELSE /\ UNCHANGED <<sess, sheetHist, fileHist, histCache, summarySaves>>
              /\ op' = OpRec("view", s, "-", <<>>, FALSE, FALSE)
    /\ UNCHANGED <<HAS_SHEETS, sheetQ, fileQ, call, ret, clock>>

\* Faulty variant of set_keys: the keys carry no subject prefix, so that
\* every subject reads the values written.
set_keys_unprefixed(state, s, session) ==
    [t \in DOMAIN state |-> session]

\* Line 52: the keys of a session are prefixed with its subject, so that
\* writing the keys of subject s leaves the keys of the others alone.
set_keys(state, s, session) ==
    [state EXCEPT ![s] = session]

\* The run after "Restart Quiz" is pressed (lines 148-154).  The button is
\* only reached when the completion view renders a dict summary.
Restart(s) ==
    /\ \E remoteOk \in BOOLEAN :
         LET QUESTIONS == load_questions(s, remoteOk) IN
         /\ QUESTIONS # <<>>
         /\ sess[s].idx >= Len(QUESTIONS)
    /\ sess[s].final_summary.type = "dict"
    /\ sess' = set_keys(sess, s, restart_quiz(sess[s]))
    /\ summarySaves' = [summarySaves EXCEPT ![s] = 0]
    /\ op' = OpRec("restart", s, "-", <<>>, FALSE, FALSE)
    /\ UNCHANGED <<HAS_SHEETS, sheetQ, fileQ, sheetHist, fileHist, histCache, call, ret, clock>>

(***************************************************************************)
(* run_quiz: the question view (idx < len(QUESTIONS)).                     *)
(***************************************************************************)
\* What line 189 can give: the results of call_openai_for_feedback over the
\* replies of the grading model, the raised upstream error among them.
FeedbackResults ==
    {call_openai_for_feedback(upstreamOk, content) :
        upstreamOk \in BOOLEAN, content \in FeedbackReplies}

\* Faulty variant of commit_feedback: the attempt log is not extended.
commit_feedback_without_log(session, q, ans_clean, fb) ==
    [session EXCEPT !.feedback = DictSet(@, q.id, fb)]

\* Lines 190-194: the feedback is stored under the question id and the
\* exchange is appended to the attempt log.
commit_feedback(session, q, ans_clean, fb) ==
    [session EXCEPT
        !.feedback = DictSet(@, q.id, fb),
        !.qa_log = Append(@, [id |-> q.id, marks |-> q.marks,
                              student_answer |-> ans_clean, feedback |-> fb])]

\* The run after "Submit answer" is pressed with ans in the answer widget
\* (lines 180-199).  A disabled button registers no click.
Submit(s, ans) ==
    /\ \E remoteOk \in BOOLEAN :
         LET QUESTIONS == load_questions(s, remoteOk) IN
         /\ QUESTIONS # <<>>
         /\ sess[s].idx < Len(QUESTIONS)
         /\ LET q == QUESTIONS[sess[s].idx + 1]
                qid == q.id
                ans_clean == strip(ans)
                rec == OpRec("submit", s, qid, ans, TRUE, FALSE)
            IN
            IF submit_disabled(s, qid, ans_clean)
            THEN /\ UNCHANGED <<sess, sheetHist, fileHist, histCache>>
                 /\ op' = OpRec("submit", s, qid, ans, FALSE, FALSE)
            ELSE /\ HistLen < MaxHist
                 /\ \E fb \in FeedbackResults :
                      LET answered == [sess[s] EXCEPT
                                         !.answers = record_answer(@, qid, ans_clean)]
                      IN
                      IF fb = Raise
                      THEN /\ sess' = [sess EXCEPT ![s] = answered]
                           /\ op' = OpFailed(rec, "upstream", FALSE)
                           /\ UNCHANGED <<sheetHist, fileHist, histCache>>
                      ELSE /\ sess' = [sess EXCEPT
                                  ![s] = commit_feedback(answered, q, ans_clean, fb)]
                           /\ \E o \in save_feedback_to_history(q, ans_clean, fb, s) :
                                /\ sheetHist' = o.sheet
                                /\ fileHist' = o.file
                                /\ histCache' = cache_after(o)
                                /\ op' = OpSaved(rec, o)
    /\ UNCHANGED <<HAS_SHEETS, sheetQ, fileQ, summarySaves, call, ret, clock>>

\* The run after "Next question" is pressed (lines 201-205).
NextQuestion(s) ==
    /\ \E remoteOk \in BOOLEAN :
         LET QUESTIONS == load_questions(s, remoteOk) IN
         /\ QUESTIONS # <<>>
         /\ sess[s].idx < Len(QUESTIONS)
         /\ LET qid == QUESTIONS[sess[s].idx + 1].id IN
            /\ IF next_disabled(s, qid)
               THEN UNCHANGED sess
               ELSE sess' = [sess EXCEPT ![s].idx = advance(@)]
            /\ op' = OpRec("next", s, qid, <<>>, FALSE, FALSE)
    /\ UNCHANGED <<HAS_SHEETS, sheetQ, fileQ, sheetHist, fileHist, histCache, summarySaves, call, ret, clock>>

(***************************************************************************)
(* Question maintenance page.                                              *)
(***************************************************************************)
\* Lines 106-118: the upload replaces the worksheet when sheets are
\* configured, the subject's JSON file otherwise; a failing write changes
\* nothing.
WriteQuestions(s, new_data) ==
    IF HAS_SHEETS
    THEN /\ sheetQ' = [sheetQ EXCEPT ![s] = new_data]
         /\ UNCHANGED fileQ
    ELSE /\ fileQ' = [fileQ EXCEPT ![s] = new_data]
         /\ UNCHANGED sheetQ

\* "Overwrite Questions File" pressed in this browser session: after the
\* write, st.session_state.clear() drops every quiz key, so each subject's
\* session starts again from the defaults on its next run.
OverwriteQuestions(s, new_data) ==
    /\ \E writeOk \in BOOLEAN :
         IF writeOk
         THEN /\ WriteQuestions(s, new_data)
              /\ sess' = [x \in Subjects |-> InitSession]
              /\ summarySaves' = [x \in Subjects |-> 0]
         ELSE UNCHANGED <<sheetQ, fileQ, sess, summarySaves>>
    /\ op' = OpRec("overwrite", s, "-", <<>>, FALSE, FALSE)
    /\ UNCHANGED <<HAS_SHEETS, sheetHist, fileHist, histCache, call, ret, clock>>

\* The same button pressed in another browser session: the shared question
\* source changes, this session's st.session_state is not touched.
OverwriteElsewhere(s, new_data) ==
    /\ WriteQuestions(s, new_data)
    /\ op' = OpRec("overwrite_elsewhere", s, "-", <<>>, FALSE, FALSE)
    /\ UNCHANGED <<HAS_SHEETS, sess, sheetHist, fileHist, histCache, summarySaves, call, ret, clock>>

Next ==
    \/ \E s \in Subjects : View(s)
    \/ \E s \in Subjects, ans \in AnswerInputs : Submit(s, ans)
    \/ \E s \in Subjects : NextQuestion(s)
    \/ \E s \in Subjects : Restart(s)
    \/ \E s \in Subjects, new_data \in UploadOptions : OverwriteQuestions(s, new_data)
    \/ \E s \in Subjects, new_data \in UploadOptions : OverwriteElsewhere(s, new_data)

Spec == Init /\ [][Next]_vars

(***************************************************************************)
(* The quiz pages over a question bank that stays as it is: no upload, and *)
(* the worksheet and the file hold the same questions.                     *)
(***************************************************************************)
\* Banks with pairwise distinct ids.
FixedBanks == {<<Q1>>, <<Q1, Q2>>}

FixedInit ==
    /\ Init
    /\ \E bank \in FixedBanks :
         /\ fileQ = [s \in Subjects |-> bank]
         /\ sheetQ = [s \in Subjects |-> IF HAS_SHEETS THEN bank ELSE <<>>]

FixedNext ==
    \/ \E s \in Subjects : View(s)
    \/ \E s \in Subjects, ans \in AnswerInputs : Submit(s, ans)
    \/ \E s \in Subjects : NextQuestion(s)
    \/ \E s \in Subjects : Restart(s)

FixedSpec == FixedInit /\ [][FixedNext]_vars

(***************************************************************************)
(* The quiz pages of two subjects in one browser session, each over its    *)
(* own one-question bank.                                                  *)
(***************************************************************************)
ScopeSubjects == {"Chemistry", "Physics"}

ScopeInit ==
    /\ HAS_SHEETS \in BOOLEAN
    /\ fileQ = [s \in ScopeSubjects |-> <<Q1>>]
    /\ sheetQ = [s \in ScopeSubjects |-> IF HAS_SHEETS THEN <<Q1>> ELSE <<>>]
    /\ sess = [s \in ScopeSubjects |-> InitSession]
    /\ summarySaves = [s \in ScopeSubjects |-> 0]
    /\ sheetHist = <<>>
    /\ fileHist = <<>>
    /\ histCache = None
    /\ clock = 0
    /\ call = [fn |-> "-"]
    /\ ret = None
    /\ op = [name |-> "start", subject |-> "-", qid |-> "-", ans |-> <<>>,
             graded |-> FALSE, summarized |-> FALSE,
             failure |-> "-", warned |-> FALSE]

ScopeNext ==
    \/ \E s \in ScopeSubjects : View(s)
    \/ \E s \in ScopeSubjects, ans \in AnswerInputs : Submit(s, ans)
    \/ \E s \in ScopeSubjects : NextQuestion(s)
    \/ \E s \in ScopeSubjects : Restart(s)

ScopeSpec == ScopeInit /\ [][ScopeNext]_vars

\* The user presses "Submit answer" with an answer in the widget and the
\* grading call returns.
GradedSubmit(s) ==
    \E ans \in AnswerInputs :
        Submit(s, ans) /\ op'.graded /\ op'.failure # "upstream"

\* The user presses an enabled "Next question".
Advanced(s) == NextQuestion(s) /\ sess'[s].idx # sess[s].idx

\* The user opens the page and the summary call, if one is made, returns.
Summarized(s) == View(s) /\ op'.failure # "upstream"

\* The user keeps submitting, advancing and viewing, and a model call that
\* fails is followed by one that returns.
LiveSpec ==
    /\ FixedInit
    /\ [][FixedNext]_vars
    /\ \A s \in Subjects :
         /\ WF_vars(GradedSubmit(s))
         /\ WF_vars(Advanced(s))
         /\ WF_vars(Summarized(s))

(***************************************************************************)
(* Properties of the session engine.                                       *)
(***************************************************************************)
\* The question lists a run of subject s can load in the current state
\* (the worksheet may or may not answer).
QuestionsSeen(s) == {load_questions(s, remoteOk) : remoteOk \in BOOLEAN}

\* A step that resets the session state of this browser session.
IsReset(o) == o.name \in {"restart", "overwrite"}

\* C1 (no-skip): the index only ever grows by one, in a "Next question" run,
\* and only when feedback is already recorded, before the step, for the id
\* of the question at the current index.
C1_NoSkip ==
    [][\A s \in Subjects :
          sess'[s].idx > sess[s].idx =>
             /\ sess'[s].idx = sess[s].idx + 1
             /\ op'.name = "next" /\ op'.subject = s
             /\ op'.qid \in DOMAIN sess[s].feedback
             /\ \E Q \in QuestionsSeen(s) :
                   /\ sess[s].idx < Len(Q)
                   /\ Q[sess[s].idx + 1].id = op'.qid]_vars

\* An advance has just happened: the last run was "Next question" and the
\* index stands past the last question of every list a run can load.
C1_Witness ==
    /\ op.name = "next"
    /\ sess[op.subject].idx = 2
    /\ op.qid \in DOMAIN sess[op.subject].feedback

\* C2 as stated: the index of a session is lowered by no run other than
\* "Restart Quiz", which sets it to 0.
C2_IndexOnlyLoweredByRestart ==
    [][\A s \in Subjects :
          sess'[s].idx < sess[s].idx =>
             op'.name = "restart" /\ sess'[s].idx = 0]_vars

\* C2 as amended: the index of a session is lowered only by "Restart Quiz"
\* or by a successful "Overwrite Questions File" of the maintenance page in
\* the same browser session (which clears st.session_state); both leave it
\* at 0.  Every other run leaves it equal or raises it.
C2_IndexLoweredOnlyByReset ==
    [][\A s \in Subjects :
          sess'[s].idx < sess[s].idx =>
             IsReset(op') /\ sess'[s].idx = 0]_vars

\* The index of a session was just lowered by a reset: "Restart Quiz" is only
\* reachable at an index of at least 1, and left the index at 0.
C2_Witness ==
    /\ op.name = "restart"
    /\ sess[op.subject].idx = 0

\* C3: a submit whose trimmed answer is empty calls no model and leaves the
\* session state and both history stores unchanged.
C3_EmptySubmitNoOp ==
    [][(op'.name = "submit" /\ strip(op'.ans) = <<>>) =>
          /\ ~op'.graded
          /\ ~op'.summarized
          /\ UNCHANGED <<sess, sheetHist, fileHist, summarySaves>>]_vars

\* A whitespace-only answer was just submitted for a question that has no
\* feedback yet.
C3_Witness ==
    /\ op.name = "submit"
    /\ op.ans = <<" ">>
    /\ op.qid \notin DOMAIN sess[op.subject].feedback

\* C4 (no re-grade): while the session is not reset, feedback recorded for
\* a question id and the answer stored for it stay exactly as they are; the
\* grading client is only called for a question id without feedback, and a
\* submit that does not call it changes nothing.
C4_NoRegrade ==
    [][/\ \A s \in Subjects : \A qid \in DOMAIN sess[s].feedback :
             ~(IsReset(op') /\ sess'[s] = InitSession) =>
                /\ qid \in DOMAIN sess'[s].feedback
                /\ sess'[s].feedback[qid] = sess[s].feedback[qid]
                /\ qid \in DOMAIN sess'[s].answers
                /\ sess'[s].answers[qid] = sess[s].answers[qid]
       /\ (op'.name = "submit" /\ op'.graded) =>
             op'.qid \notin DOMAIN sess[op'.subject].feedback
       /\ (op'.name = "submit" /\ ~op'.graded) =>
             UNCHANGED <<sess, sheetHist, fileHist, summarySaves>>]_vars

\* A non-empty answer was just submitted for a question id that already has
\* feedback.
C4_Witness ==
    /\ op.name = "submit"
    /\ strip(op.ans) # <<>>
    /\ op.qid \in DOMAIN sess[op.subject].feedback
    /\ ~op.graded

\* C5 as stated: a submit whose grading call or normalization fails (the
\* client was called and no feedback is recorded for the question) leaves
\* answers, feedback, the attempt log and the history stores as they were.
C5_FailedSubmitAtomic ==
    [][(/\ op'.name = "submit"
        /\ op'.graded
        /\ op'.qid \notin DOMAIN sess'[op'.subject].feedback) =>
          UNCHANGED <<sess, sheetHist, fileHist>>]_vars

\* C6: once the summary of a session is cached, no run but a reset changes
\* it, and no run of that subject calls the summarize operation.
C6_SummaryGeneratedOnce ==
    [][\A s \in Subjects :
          sess[s].final_summary # None =>
             \/ IsReset(op') /\ sess'[s] = InitSession
             \/ /\ sess'[s].final_summary = sess[s].final_summary
                /\ ~(op'.summarized /\ op'.subject = s)]_vars

\* The completion view was just re-entered with a cached summary.
C6_Witness ==
    /\ op.name = "view"
    /\ ~op.summarized
    /\ sess[op.subject].final_summary # None
    /\ \A Q \in QuestionsSeen(op.subject) :
          Q # <<>> /\ sess[op.subject].idx >= Len(Q)

\* C7 as stated: whenever a session's cached summary is non-null, exactly
\* one summary record has been appended to the history store for it.
C7_SummaryPersistedOnce ==
    \A s \in Subjects :
       sess[s].final_summary # None => summarySaves[s] = 1

\* The session is complete in the sense that a run can show its completion
\* view: some list a run can load is non-empty and not longer than the index.
CompleteNow(s) ==
    \E Q \in QuestionsSeen(s) : Q # <<>> /\ sess[s].idx >= Len(Q)

\* C8 as stated: once a session is complete it stays complete with the same
\* index on every run that does not reset it, no such run calls the grading
\* client, and the index never exceeds the length of the question list.
C8_CompleteIsTerminal ==
    [][\A s \in Subjects :
          (CompleteNow(s) /\ ~IsReset(op')) =>
             /\ CompleteNow(s)'
             /\ sess'[s].idx = sess[s].idx
             /\ ~(op'.graded /\ op'.subject = s)
             /\ \A Q \in QuestionsSeen(s)' :
                   Q # <<>> => sess'[s].idx <= Len(Q)]_vars

\* C9: after "Restart Quiz" the session has index 0, empty answers and
\* feedback, an empty attempt log and no summary, and a run shows the first
\* question un-answered.
C9_ResetRestoresInitial ==
    [][\A s \in Subjects :
          (op'.name = "restart" /\ op'.subject = s) =>
             /\ sess'[s].idx = 0
             /\ DOMAIN sess'[s].answers = {}
             /\ DOMAIN sess'[s].feedback = {}
             /\ sess'[s].qa_log = <<>>
             /\ sess'[s].final_summary = None
             /\ \E Q \in QuestionsSeen(s)' :
                   /\ Q # <<>>
                   /\ Q[1].id \notin DOMAIN sess'[s].feedback]_vars

\* "Restart Quiz" was just pressed on a session that had answered a question.
C9_Witness ==
    /\ op.name = "restart"
    /\ sess[op.subject] = InitSession
    /\ HistLen > 0

\* C10: in every reachable state, a question id with feedback has an answer.
C10_FeedbackImpliesAnswer ==
    \A s \in Subjects : DOMAIN sess[s].feedback \subseteq DOMAIN sess[s].answers

\* Feedback is recorded for some question.
C10_Witness ==
    \E s \in Subjects : DOMAIN sess[s].feedback # {}

(***************************************************************************)
(* The normalizers and the score aggregation as functions of their input:  *)
(* each action below is one call, on an input drawn from a bounded set;    *)
(* call records the function and its arguments, ret what it returned.      *)
(* The session and the stores take no part.                                *)
(***************************************************************************)
\* Largest length of a video_queries list.
MaxQueries == 7

\* What can stand before and after the body of a reply.
ReplyPrefixes == {<<>>, <<" ">>, <<Fence, JsonWord, "\n">>, <<Fence, "\n">>}
ReplySuffixes == {<<>>, <<"\n">>, <<"\n", Fence>>, <<"\n", Fence, "\n", ProseReply>>}

\* Bodies of a reply: nothing, one JSON document, prose, a truncated object.
ReplyBodies ==
    {<<>>} \cup {<<b>> : b \in JsonDocuments \cup {ProseReply, TruncatedReply}}

\* Raw reply texts (message.content) of either model.
RawReplies ==
    {p \o b \o x : p \in ReplyPrefixes, b \in ReplyBodies, x \in ReplySuffixes}

\* Search queries, as character sequences.
Queries == {<<"gold", " ", "foil">>, <<" ", "atom", "\t", " ", "model", "\n">>}

\* The sequences over S of length at most n.
SeqUpTo(S, n) == UNION {[1..k -> S] : k \in 0..n}

FnInit ==
    /\ HAS_SHEETS = FALSE
    /\ fileQ = [s \in Subjects |-> <<>>]
    /\ sheetQ = [s \in Subjects |-> <<>>]
    /\ sess = [s \in Subjects |-> InitSession]
    /\ sheetHist = <<>>
    /\ fileHist = <<>>
    /\ summarySaves = [s \in Subjects |-> 0]
    /\ op = [name |-> "start", subject |-> "-", qid |-> "-", ans |-> <<>>,
             graded |-> FALSE, summarized |-> FALSE,
             failure |-> "-", warned |-> FALSE]
    /\ call = [fn |-> "-"]
    /\ ret = None
    /\ clock = 0
    /\ histCache = None

\* No call is under way.
NoCall == [fn |-> "-"]

Idle ==
    UNCHANGED <<HAS_SHEETS, sheetQ, fileQ, sess, sheetHist, fileHist, summarySaves, op,
                clock, histCache>>

\* One call of utils.call_openai_for_feedback.
FeedbackCall(upstreamOk, content) ==
    /\ call = NoCall
    /\ call' = [fn |-> "call_openai_for_feedback", upstreamOk |-> upstreamOk,
                content |-> content]
    /\ ret' = call_openai_for_feedback(upstreamOk, content)
    /\ Idle

\* Lines 318-333 on a decoded reply that carries a list of search queries.
LinksCall(vqs) ==
    LET parsed == Dict([verdict |-> Str(<<"Correct">>),
                        video_queries |-> List([i \in 1..Len(vqs) |-> Str(vqs[i])])])
    IN /\ call = NoCall
       /\ call' = [fn |-> "normalize_feedback", parsed |-> parsed]
       /\ ret' = normalize_feedback(parsed, <<>>)
       /\ Idle

\* One call of utils.call_openai_for_final_summary.
SummaryCall(upstreamOk, content) ==
    /\ call = NoCall
    /\ call' = [fn |-> "call_openai_for_final_summary", upstreamOk |-> upstreamOk,
                content |-> content]
    /\ ret' = call_openai_for_final_summary(upstreamOk, content)
    /\ Idle

\* Largest number of entries of an attempt log.
MaxLog == 3

\* Largest total of marks, and of bands, the header is computed for.
MaxTotal == 50

\* The text "not sure, maybe 1".
NotSureMaybe1 == <<"n", "o", "t", " ", "s", "u", "r", "e", ",", " ",
                   "m", "a", "y", "b", "e", " ", "1">>

\* Entries an attempt log can hold: marks, and a feedback whose score_band
\* is a number as text, text with a number in it, empty text or a number;
\* a feedback without score_band; no feedback; a feedback that is None.
LogItems ==
    {[marks |-> 2, feedback |-> Dict([score_band |-> Str(<<"2">>)])],
     [marks |-> 2, feedback |-> Dict([score_band |-> Str(NotSureMaybe1)])],
     [marks |-> 1, feedback |-> Dict([score_band |-> Str(<<>>)])],
     [marks |-> 2, feedback |-> Dict([score_band |-> Num(1)])],
     [marks |-> 1, feedback |-> Dict([verdict |-> Str(<<"Correct">>)])],
     [marks |-> 1],
     [marks |-> 2, feedback |-> None]}

\* The completion view computing the final score of an attempt log.
ScoreCall(log) ==
    /\ call = NoCall
    /\ call' = [fn |-> "final_score", log |-> log]
    /\ ret' = final_score(log)
    /\ Idle

\* The header computed from the two totals.
HeaderCall(total_score, total_marks) ==
    /\ call = NoCall
    /\ call' = [fn |-> "score_header", total_score |-> total_score,
                total_marks |-> total_marks]
    /\ ret' = score_header(total_score, total_marks)
    /\ Idle

\* The dataclass constructor Question(**q) (utils.py 127-132): id, topic,
\* marks and prompt are required, answer_type defaults to "text", any other
\* key is a TypeError.
Question(q) ==
    IF {"id", "topic", "marks", "prompt"} \subseteq DOMAIN q
       /\ DOMAIN q \subseteq {"id", "topic", "marks", "prompt", "answer_type"}
    THEN [id |-> q.id, topic |-> q.topic, marks |-> q.marks, prompt |-> q.prompt,
          answer_type |-> IF "answer_type" \in DOMAIN q THEN q.answer_type ELSE "text"]
    ELSE Raise

\* [Question(**q) for q in data] on a list of dicts: raises when one item
\* does.
questions_of(items) ==
    IF \E i \in 1..Len(items) : Question(items[i]) = Raise
    THEN Raise
    ELSE List([i \in 1..Len(items) |-> Question(items[i])])

\* The local branch of utils.load_questions, lines 155-166, on what the
\* subject's file holds: None for no file, Raise for text that json.load
\* rejects, else the decoded value.  Iterating a value that is not a list
\* of dicts makes Question(**q) raise.
load_from_file(file) ==
    IF file = None THEN List(<<>>)
    ELSE IF file = Raise THEN Raise
    ELSE IF file.type # "list" THEN Raise
    ELSE questions_of(file.items)

\* utils.load_questions, lines 143-166, on what sheets_db.get_questions
\* gives (Raise when the worksheet is unreachable, else the list of its
\* rows) and on what the file holds: rows that are there and construct
\* are returned, everything else falls through to the file.
load_questions_from(has_sheets, remote, file) ==
    IF has_sheets /\ remote # Raise /\ remote.items # <<>>
       /\ questions_of(remote.items) # Raise
    THEN questions_of(remote.items)
    ELSE load_from_file(file)

\* Question dicts as a worksheet row or a file item gives them: two
\* questions, one without its prompt, one with a column too many.
ItemQ1 == [id |-> "q1", topic |-> "atoms", marks |-> 2, prompt |-> "p1"]
ItemQ2 == [id |-> "q2", topic |-> "bonds", marks |-> 1, prompt |-> "p2",
           answer_type |-> "text"]
ItemNoPrompt == [id |-> "q2", topic |-> "bonds", marks |-> 1]
ItemExtra == [id |-> "q2", topic |-> "bonds", marks |-> 1, prompt |-> "p2",
              notes |-> "n"]

\* What sheets_db.get_questions can give, and what the file can hold.
RemoteSources ==
    {Raise, List(<<>>), List(<<ItemQ1, ItemQ2>>), List(<<ItemQ1, ItemQ1>>),
     List(<<ItemQ1, ItemExtra>>)}
FileSources ==
    {None, Raise, Dict([questions |-> List(<<ItemQ1>>)]), List(<<>>),
     List(<<ItemQ1>>), List(<<ItemQ1, ItemQ2>>), List(<<ItemQ1, ItemNoPrompt>>),
     List(<<ItemQ1, ItemQ1>>)}

\* One call of utils.load_questions.
LoadCall(has_sheets, remote, file) ==
    /\ call = NoCall
    /\ call' = [fn |-> "load_questions", has_sheets |-> has_sheets,
                remote |-> remote, file |-> file]
    /\ ret' = load_questions_from(has_sheets, remote, file)
    /\ Idle

\* The call returns to its caller.
Return ==
    /\ call # NoCall
    /\ call' = NoCall
    /\ ret' = None
    /\ Idle

FnNext ==
    \/ \E upstreamOk \in BOOLEAN, content \in RawReplies : FeedbackCall(upstreamOk, content)
    \/ \E vqs \in SeqUpTo(Queries, MaxQueries) : LinksCall(vqs)
    \/ \E upstreamOk \in BOOLEAN, content \in RawReplies : SummaryCall(upstreamOk, content)
    \/ \E log \in SeqUpTo(LogItems, MaxLog) : ScoreCall(log)
    \/ \E total_score \in 0..MaxTotal, total_marks \in 0..MaxTotal :
          HeaderCall(total_score, total_marks)
    \/ \E has_sheets \in BOOLEAN, remote \in RemoteSources, file \in FileSources :
          LoadCall(has_sheets, remote, file)
    \/ Return

FnSpec == FnInit /\ [][FnNext]_vars

(***************************************************************************)
(* Properties of feedback and summary normalization.                       *)
(***************************************************************************)
\* C11 as stated: whenever the grading model returns a reply, normalizing it
\* yields a feedback value and never raises, whatever the reply text is.
C11_NormalizationNeverRaises ==
    (call.fn = "call_openai_for_feedback" /\ call.upstreamOk) => ret # Raise

\* A reply text that cannot decode as JSON: it holds prose or a truncated
\* object, or no JSON document at all.
DoesNotDecode(text) ==
    \/ \E i \in 1..Len(text) : text[i] \in {ProseReply, TruncatedReply}
    \/ \A i \in 1..Len(text) : text[i] \notin JsonDocuments

\* C12: for a reply that does not decode as JSON, the feedback returned has
\* verdict "Partly correct", score_band "0", the raw reply as why, and empty
\* misconceptions, next_steps, video_queries and video_links.
C12_UndecodableGivesFallback ==
    (/\ call.fn = "call_openai_for_feedback"
     /\ call.upstreamOk
     /\ DoesNotDecode(call.content)) =>
       /\ ret.type = "dict"
       /\ {"verdict", "score_band", "why", "misconceptions", "next_steps",
           "video_queries", "video_links"} \subseteq DOMAIN ret.d
       /\ ret.d.verdict = Str(<<"Partly correct">>)
       /\ ret.d.score_band = Str(<<"0">>)
       /\ ret.d.why = Str(call.content)
       /\ ret.d.misconceptions = List(<<>>)
       /\ ret.d.next_steps = List(<<>>)
       /\ ret.d.video_queries = List(<<>>)
       /\ ret.d.video_links = List(<<>>)

\* A prose reply with whitespace around it was normalized into a feedback
\* that carries the reply, whitespace included.
C12_Witness ==
    /\ call.fn = "call_openai_for_feedback"
    /\ call.upstreamOk
    /\ call.content = <<" ", ProseReply, "\n">>
    /\ ret.type = "dict"
    /\ ret.d.why = Str(<<" ", ProseReply, "\n">>)

\* The list fields of a feedback other than video_links.
ListFields == {"misconceptions", "next_steps", "video_queries"}

\* C13 as stated: when the reply decodes to a JSON object and a feedback is
\* returned, each of misconceptions, next_steps and video_queries is a key
\* of the result, with the empty sequence as its value when the reply
\* omitted it.
C13_OmittedListsDefaultEmpty ==
    (/\ call.fn = "call_openai_for_feedback"
     /\ call.upstreamOk
     /\ safe_json_loads(call.content).type = "dict"
     /\ ret.type = "dict") =>
       \A k \in ListFields :
          /\ k \in DOMAIN ret.d
          /\ k \notin DOMAIN safe_json_loads(call.content).d => ret.d[k] = List(<<>>)

\* A score_band that is a number written in digits.
IsNumber(sb) ==
    /\ sb.type = "str"
    /\ sb.s # <<>>
    /\ \A i \in 1..Len(sb.s) : IsDigit(sb.s[i])

\* C14 as stated: every feedback recorded in the attempt log of a session
\* has a score_band between 0 and the marks of its question.
C14_BandWithinMarks ==
    \A s \in Subjects : \A i \in 1..Len(sess[s].qa_log) :
       LET entry == sess[s].qa_log[i] IN
       ("score_band" \in DOMAIN entry.feedback.d
          /\ IsNumber(entry.feedback.d.score_band)) =>
             int_of_digits(entry.feedback.d.score_band.s) \in 0..entry.marks

\* The URL expected for each search query: the template followed by the
\* words of the query joined by "+".
ExpectedUrl(query) ==
    CASE query = <<"gold", " ", "foil">> -> <<SearchTemplate, "gold", "+", "foil">>
      [] query = <<" ", "atom", "\t", " ", "model", "\n">> ->
             <<SearchTemplate, "atom", "+", "model">>

\* C15: video_links has min(6, len(video_queries)) entries; entry i pairs
\* video_queries[i] with the search template followed by the trimmed query
\* in which each run of whitespace is one "+"; equal queries have equal URLs.
C15_LinksFromQueries ==
    call.fn = "normalize_feedback" =>
       /\ ret.type = "dict"
       /\ "video_links" \in DOMAIN ret.d
       /\ LET vqs == call.parsed.d.video_queries.items
              links == ret.d.video_links.items
          IN /\ Len(links) = IF Len(vqs) < 6 THEN Len(vqs) ELSE 6
             /\ \A i \in 1..Len(links) :
                   /\ links[i].d.query = vqs[i]
                   /\ links[i].d.url = Str(ExpectedUrl(vqs[i].s))
             /\ \A i, j \in 1..Len(links) :
                   links[i].d.query = links[j].d.query => links[i].d.url = links[j].d.url

\* A feedback with seven queries was normalized and carries six links.
C15_Witness ==
    /\ call.fn = "normalize_feedback"
    /\ Len(call.parsed.d.video_queries.items) = 7
    /\ ret.type = "dict"
    /\ Len(ret.d.video_links.items) = 6

\* C16: normalizing a summary reply never raises, and for a reply that does
\* not decode as JSON the summary returned has the fixed "could not be
\* parsed" overall_summary, its five list fields empty, and the raw reply
\* under the key raw.
C16_SummaryFallback ==
    (call.fn = "call_openai_for_final_summary" /\ call.upstreamOk) =>
       /\ ret # Raise
       /\ DoesNotDecode(call.content) =>
             ret = Dict([overall_summary |->
                            Str(<<"Summary could not be parsed as JSON. Raw output provided.">>),
                         strengths |-> List(<<>>),
                         gaps |-> List(<<>>),
                         misconceptions_to_fix |-> List(<<>>),
                         key_learning_points |-> List(<<>>),
                         recommended_next_topics |-> List(<<>>),
                         raw |-> Str(call.content)])

\* A truncated reply inside an unclosed code fence was normalized into a
\* summary that keeps the reply.
C16_Witness ==
    /\ call.fn = "call_openai_for_final_summary"
    /\ call.upstreamOk
    /\ call.content = <<Fence, JsonWord, "\n", TruncatedReply>>
    /\ ret.type = "dict"
    /\ ret.d.raw = Str(<<Fence, JsonWord, "\n", TruncatedReply>>)

(***************************************************************************)
(* Properties of the final score.                                          *)
(***************************************************************************)
\* The text of an entry's score_band, "0" when the entry has no feedback
\* dict or the feedback no score_band.
BandText(item) ==
    IF \/ "feedback" \notin DOMAIN item
       \/ item.feedback.type # "dict"
       \/ "score_band" \notin DOMAIN item.feedback.d
    THEN <<"0">>
    ELSE str_of(item.feedback.d.score_band)

\* The number written by the first run of digits of a text, wherever the
\* run starts; 0 when the text has no digit.
FirstNumberIn(t) ==
    IF \A i \in 1..Len(t) : ~IsDigit(t[i]) THEN 0
    ELSE LET first == CHOOSE i \in 1..Len(t) :
                         IsDigit(t[i]) /\ \A k \in 1..(i - 1) : ~IsDigit(t[k])
             last == CHOOSE j \in first..Len(t) :
                        /\ \A k \in first..j : IsDigit(t[k])
                        /\ j = Len(t) \/ ~IsDigit(t[j + 1])
         IN int_of_digits(SubSeq(t, first, last))

\* The number written by the digits a text starts with; 0 when it starts
\* with no digit.
LeadingNumberIn(t) ==
    IF t = <<>> \/ ~IsDigit(t[1]) THEN 0
    ELSE LET last == CHOOSE j \in 1..Len(t) :
                        /\ \A k \in 1..j : IsDigit(t[k])
                        /\ j = Len(t) \/ ~IsDigit(t[j + 1])
         IN int_of_digits(SubSeq(t, 1, last))

\* An entry as the engine logs it: its feedback, when present, is a dict.
WellFormed(item) == "feedback" \in DOMAIN item => item.feedback.type = "dict"

RECURSIVE SumOfMarks(_)
SumOfMarks(log) ==
    IF log = <<>> THEN 0 ELSE log[1].marks + SumOfMarks(Tail(log))

RECURSIVE SumOfBands(_)
SumOfBands(log) ==
    IF log = <<>> THEN 0 ELSE FirstNumberIn(BandText(log[1])) + SumOfBands(Tail(log))

\* C17: over an attempt log, possible is the sum of every entry's marks and
\* achieved the sum of the values extracted from the entries' bands; an
\* entry whose band has no digits adds 0 to achieved and its marks to
\* possible; bands "2", "not sure, maybe 1", "" with marks 2, 2, 1 give
\* achieved 3, possible 5, percent 60.
C17_ScoreSums ==
    (call.fn = "final_score" /\ \A i \in 1..Len(call.log) : WellFormed(call.log[i])) =>
       /\ ret.type \in {"score", "no score"}
       /\ ret.total_marks = SumOfMarks(call.log)
       /\ ret.total_score = SumOfBands(call.log)
       /\ call.log = <<[marks |-> 2, feedback |-> Dict([score_band |-> Str(<<"2">>)])],
                       [marks |-> 2, feedback |-> Dict([score_band |-> Str(NotSureMaybe1)])],
                       [marks |-> 1, feedback |-> Dict([score_band |-> Str(<<>>)])]>>
            => ret = [type |-> "score", total_score |-> 3, total_marks |-> 5,
                      percent |-> 60]

\* The score of the log with bands "2", "not sure, maybe 1", "" was computed.
C17_Witness ==
    /\ call.fn = "final_score"
    /\ Len(call.log) = 3
    /\ BandText(call.log[1]) = <<"2">>
    /\ BandText(call.log[2]) = NotSureMaybe1
    /\ BandText(call.log[3]) = <<>>
    /\ ret.type = "score"
    /\ ret.percent = 60

\* C18 as stated: the value extracted from an entry's score_band is the
\* number written by the digits its text starts with, 0 when it starts with
\* none or the band is absent.
C18_LeadingDigits ==
    (call.fn = "final_score" /\ Len(call.log) = 1 /\ WellFormed(call.log[1])) =>
       ret.total_score = LeadingNumberIn(BandText(call.log[1]))

\* C18 as amended: the value extracted from an entry's score_band is the
\* number written by the first run of digits found anywhere in its text
\* ("not sure, maybe 1" gives 1), 0 when the text has no digit or the band
\* is absent.
C18_FirstDigits ==
    (call.fn = "final_score" /\ Len(call.log) = 1 /\ WellFormed(call.log[1])) =>
       ret.total_score = FirstNumberIn(BandText(call.log[1]))

\* The score of a log whose one entry has the band "not sure, maybe 1" was
\* computed as 1.
C18_Witness ==
    /\ call.fn = "final_score"
    /\ Len(call.log) = 1
    /\ BandText(call.log[1]) = NotSureMaybe1
    /\ ret.total_score = 1

\* C19 as stated: for achieved >= 0 and possible > 0 the percent shown is
\* floor(100 * achieved / possible), computed exactly; for possible = 0 no
\* percent is shown.
C19_PercentIsExactFloor ==
    call.fn = "score_header" =>
       IF call.total_marks > 0
       THEN /\ ret.type = "score"
            /\ ret.percent = (100 * call.total_score) \div call.total_marks
       ELSE ret.type = "no score"

\* What an entry adds to achieved: nothing when it has no usable feedback or
\* its band has no digit.
AchievedOf(item) ==
    IF ~WellFormed(item) THEN 0 ELSE FirstNumberIn(BandText(item))

RECURSIVE SumOfAchieved(_)
SumOfAchieved(log) ==
    IF log = <<>> THEN 0 ELSE AchievedOf(log[1]) + SumOfAchieved(Tail(log))

\* C20: for every attempt log, also one with entries whose band is
\* malformed or whose feedback is missing or None, the aggregation ends with
\* a header and does not raise, and such an entry adds 0 to achieved.
C20_AggregationNeverFails ==
    call.fn = "final_score" =>
       /\ ret # Raise
       /\ ret.type \in {"score", "no score"}
       /\ ret.total_score = SumOfAchieved(call.log)

\* The score of a log holding an entry whose feedback is None, an entry
\* without feedback and a graded entry was computed.
C20_Witness ==
    /\ call.fn = "final_score"
    /\ call.log = <<[marks |-> 2, feedback |-> None],
                    [marks |-> 1],
                    [marks |-> 2, feedback |-> Dict([score_band |-> Str(<<"2">>)])]>>
    /\ ret.type = "score"
    /\ ret.total_score = 2

(***************************************************************************)
(* The feedback history page (pages/Feedback_History.py) and the history   *)
(* store behind it: the History worksheet (sheets_db.py) and the file      *)
(* feedback_history.json.                                                  *)
(***************************************************************************)
\* The largest reading of the clock; the two stores hold MaxHist records
\* together at most.
MaxClock == 1

\* The subjects whose quizzes write history, and the choices of the
\* "Subject Filter" selectbox (line 88).
HistorySubjects == {"Chemistry", "Physics"}
All == Str(<<"All">>)
SUBJECTS == {All} \cup {Str(<<x>>) : x \in HistorySubjects}

\* list.reverse()
reverse(seq) == [i \in 1..Len(seq) |-> seq[Len(seq) + 1 - i]]

\* One item of sheets_db.get_history (lines 101-113): the row's timestamp
\* and type, updated with the keys of the decoded content.
row_item(row) ==
    json_loads_cell(row.content) @@ [timestamp |-> row.timestamp, type |-> row.type]

\* sheets_db.get_history under st.cache_data: a cached result is returned
\* without touching the worksheet; otherwise the rows are fetched, which
\* raises when the worksheet is unreachable, and the result is cached.
get_history(cache, rows, remoteOk) ==
    IF cache # None THEN cache
    ELSE IF ~remoteOk THEN Raise
    ELSE List([i \in 1..Len(rows) |-> row_item(rows[i])])

\* Lines 30-53 of the page: the history list it goes on to render, newest
\* first, the get_history cache afterwards, and whether the except branch of
\* line 34 was taken.  A missing file and a file
\* holding the empty list both show no record.
read_history(cache, rows, file, remoteOk, fileOk) ==
    IF HAS_SHEETS
    THEN LET got == get_history(cache, rows, remoteOk) IN
         IF got # Raise
         THEN [status |-> "ok", history |-> reverse(got.items), cache |-> got,
               fallback |-> FALSE]
         ELSE IF file = <<>>
         THEN [status |-> "ok", history |-> <<>>, cache |-> cache,
               fallback |-> TRUE]
         ELSE IF fileOk
         THEN [status |-> "ok", history |-> reverse(file), cache |-> cache,
               fallback |-> TRUE]
         ELSE [status |-> "raised", history |-> <<>>, cache |-> cache,
               fallback |-> TRUE]
    ELSE IF file = <<>>
         THEN [status |-> "stopped", history |-> <<>>, cache |-> cache,
               fallback |-> FALSE]
         ELSE IF fileOk
         THEN [status |-> "ok", history |-> reverse(file), cache |-> cache,
               fallback |-> FALSE]
         ELSE [status |-> "stopped", history |-> <<>>, cache |-> cache,
               fallback |-> FALSE]

\* item.get("subject", "Chemistry"), line 109
item_subject(item) ==
    IF "subject" \in DOMAIN item THEN item.subject ELSE Str(<<"Chemistry">>)

\* The subject filter of the listing loop, lines 98-113: the items of the
\* history list for which a card is rendered.
listing(history, filter_subject) ==
    SelectSeq(history,
              LAMBDA item : ~(filter_subject # All /\ item_subject(item) # filter_subject))

\* Faulty variant of find: the first row is reported when no cell matches.
find_defaults_to_first(rows, target_ts) ==
    LET hits == {i \in 1..Len(rows) : rows[i].timestamp = target_ts} IN
    IF rows = <<>> THEN 0
    ELSE IF hits = {} THEN 1 ELSE CHOOSE i \in hits : \A j \in hits : i <= j

\* ws.find(target_ts): the first row holding target_ts, 0 when no cell
\* matches.
find(rows, target_ts) ==
    LET hits == {i \in 1..Len(rows) : rows[i].timestamp = target_ts} IN
    IF hits = {} THEN 0 ELSE CHOOSE i \in hits : \A j \in hits : i <= j

\* ws.delete_rows(row)
delete_rows(rows, row) ==
    [j \in 1..(Len(rows) - 1) |-> IF j < row THEN rows[j] ELSE rows[j + 1]]

\* sheets_db.delete_history_entry: raises when the worksheet cannot be
\* reached; deletes the first matching row and clears the get_history
\* cache; does nothing when no row matches.
delete_history_entry(rows, target_ts, remoteOk) ==
    IF ~remoteOk THEN Raise
    ELSE LET cell == find(rows, target_ts) IN
         IF cell # 0
         THEN [rows |-> delete_rows(rows, cell), cleared |-> TRUE]
         ELSE [rows |-> rows, cleared |-> FALSE]

\* Line 77: the records of the file that are kept.
keep_others(data, target_ts) ==
    SelectSeq(data, LAMBDA d : d.timestamp # target_ts)

\* Faulty variant of delete_record: after a failed worksheet delete the
\* file is tried.
delete_record_retries_on_file(cache, rows, file, target_ts, remoteOk, fileOk) ==
    IF HAS_SHEETS /\ remoteOk
    THEN LET done == delete_history_entry(rows, target_ts, remoteOk) IN
         [sheet |-> done.rows, file |-> file,
          cache |-> IF done.cleared THEN None ELSE cache,
          message |-> "Entry deleted from Sheets.", rerun |-> TRUE]
    ELSE IF file = <<>>
         THEN [sheet |-> rows, file |-> file, cache |-> cache,
               message |-> "-", rerun |-> FALSE]
         ELSE [sheet |-> rows, file |-> keep_others(file, target_ts), cache |-> cache,
               message |-> "Entry deleted.", rerun |-> TRUE]

\* delete_record of the page, lines 56-85: the stores and the cache
\* afterwards, the message shown and whether st.rerun() was reached.  A
\* file that cannot be opened for reading or for writing is left as it was.
delete_record(cache, rows, file, target_ts, remoteOk, fileOk) ==
    IF HAS_SHEETS
    THEN LET done == delete_history_entry(rows, target_ts, remoteOk) IN
         IF done = Raise
         THEN [sheet |-> rows, file |-> file, cache |-> cache,
               message |-> "Failed to delete from Sheets", rerun |-> FALSE]
         ELSE [sheet |-> done.rows, file |-> file,
               cache |-> IF done.cleared THEN None ELSE cache,
               message |-> "Entry deleted from Sheets.", rerun |-> TRUE]
    ELSE IF file = <<>>
         THEN [sheet |-> rows, file |-> file, cache |-> cache,
               message |-> "-", rerun |-> FALSE]
         ELSE IF fileOk
         THEN [sheet |-> rows, file |-> keep_others(file, target_ts), cache |-> cache,
               message |-> "Entry deleted.", rerun |-> TRUE]
         ELSE [sheet |-> rows, file |-> file, cache |-> cache,
               message |-> "Failed to delete", rerun |-> FALSE]

\* The feedback and the summary that the quiz pages hand to the history
\* functions (quiz_engine.py lines 189-195 and 92-96).
HistoryFeedback == call_openai_for_feedback(TRUE, <<DocMinimal>>)
HistorySummary(s) ==
    Dict(DictSet(call_openai_for_final_summary(TRUE, <<DocSummary>>).d,
                 "subject", Str(<<s>>)))

\* The state before any history is written.
HistInit ==
    /\ HAS_SHEETS \in BOOLEAN
    /\ fileQ = [s \in Subjects |-> <<Q1>>]
    /\ sheetQ = [s \in Subjects |-> <<>>]
    /\ sess = [s \in Subjects |-> InitSession]
    /\ sheetHist = <<>>
    /\ fileHist = <<>>
    /\ summarySaves = [s \in Subjects |-> 0]
    /\ op = [name |-> "start", subject |-> "-", qid |-> "-", ans |-> <<>>,
             graded |-> FALSE, summarized |-> FALSE,
             failure |-> "-", warned |-> FALSE]
    /\ call = [fn |-> "-"]
    /\ ret = None
    /\ clock = 0
    /\ histCache = None

\* What the history operations leave alone.
QuizUnchanged == UNCHANGED <<HAS_SHEETS, sheetQ, fileQ, sess, summarySaves, op>>

\* Time passes.
Tick ==
    /\ clock < MaxClock
    /\ clock' = clock + 1
    /\ UNCHANGED <<sheetHist, fileHist, histCache, call, ret>>
    /\ QuizUnchanged

\* The get_history cache entry expires (ttl=60).
CacheExpire ==
    /\ histCache # None
    /\ histCache' = None
    /\ UNCHANGED <<sheetHist, fileHist, clock, call, ret>>
    /\ QuizUnchanged

\* The effect of outcome o of a save on the stores, with the call and its
\* result recorded.
Saved(o, fn, record_type, s) ==
    /\ sheetHist' = o.sheet
    /\ fileHist' = o.file
    /\ histCache' = cache_after(o)
    /\ call' = [fn |-> fn, type |-> record_type, subject |-> Str(<<s>>),
                timestamp |-> now]
    /\ ret' = IF o.raised THEN Raise
              ELSE [type |-> "saved", warned |-> o.warned,
                    dropped |-> (histCache # None /\ o.cleared)]

\* A submit in a session of subject s saves its question record.
SaveFeedback(s) ==
    /\ HistLen < MaxHist
    /\ \E o \in save_feedback_to_history(Q1, <<"a">>, HistoryFeedback, s) :
         Saved(o, "save_feedback_to_history", "question", s)
    /\ UNCHANGED clock
    /\ QuizUnchanged

\* A completion view of subject s saves its summary record.
SaveSummary(s) ==
    /\ HistLen < MaxHist
    /\ \E o \in save_summary_to_history(HistorySummary(s)) :
         Saved(o, "save_summary_to_history", "summary", s)
    /\ UNCHANGED clock
    /\ QuizUnchanged

\* A run of the history page with filter_subject chosen in the selectbox.
Read(filter_subject) ==
    /\ \E remoteOk \in BOOLEAN, fileOk \in BOOLEAN :
         LET r == read_history(histCache, sheetHist, fileHist, remoteOk, fileOk) IN
         /\ histCache' = r.cache
         /\ call' = [fn |-> "read", filter |-> filter_subject]
         /\ ret' = [type |-> "page", status |-> r.status, history |-> r.history,
                    items |-> listing(r.history, filter_subject),
                    fallback |-> r.fallback]
    /\ UNCHANGED <<sheetHist, fileHist, clock>>
    /\ QuizUnchanged

\* The "Delete Entry" button of a card with timestamp target_ts is pressed:
\* delete_record runs, and where it reaches st.rerun() the page is run
\* again and reads the history anew.
Delete(target_ts) ==
    /\ \E ok \in BOOLEAN, remoteOk \in BOOLEAN, fileOk \in BOOLEAN :
         LET d == delete_record(histCache, sheetHist, fileHist, target_ts, ok, ok)
             r == read_history(d.cache, d.sheet, d.file, remoteOk, fileOk)
         IN
         /\ sheetHist' = d.sheet
         /\ fileHist' = d.file
         /\ histCache' = IF d.rerun THEN r.cache ELSE d.cache
         /\ call' = [fn |-> "delete", timestamp |-> target_ts, ok |-> ok]
         /\ ret' = [type |-> "deleted", message |-> d.message, rerun |-> d.rerun,
                    removed |-> HistLen - (Len(d.sheet) + Len(d.file)),
                    status |-> IF d.rerun THEN r.status ELSE "-",
                    items |-> IF d.rerun THEN r.history ELSE <<>>]
    /\ UNCHANGED clock
    /\ QuizUnchanged

HistNext ==
    \/ Tick
    \/ CacheExpire
    \/ \E s \in HistorySubjects : SaveFeedback(s)
    \/ \E s \in HistorySubjects : SaveSummary(s)
    \/ \E f \in SUBJECTS : Read(f)
    \/ \E ts \in 0..MaxClock : Delete(ts)

HistSpec == HistInit /\ [][HistNext]_vars


(***************************************************************************)
(* Two deployments side by side, one with the worksheet (its store is      *)
(* sheetHist) and one without (its store is fileHist), given the same      *)
(* saves and deletes while both stores work.                               *)
(***************************************************************************)
\* The outcome of a save in which the worksheet took the record, and the
\* one in which the file was read and rewritten with the record added.
remote_outcome(outcomes) == CHOOSE o \in outcomes : o.cleared
file_outcome(outcomes) ==
    CHOOSE o \in outcomes :
        ~o.cleared /\ ~o.raised /\ Len(o.file) = Len(fileHist) + 1

\* What each deployment's history page lists (lines 32-33 and 48-50).
remote_read(rows) == reverse(get_history(None, rows, TRUE).items)
file_read(file) == reverse(file)

PairInit ==
    /\ HistInit
    /\ HAS_SHEETS

PairSaved(outcomes, fn, record_type, s) ==
    /\ sheetHist' = remote_outcome(outcomes).sheet
    /\ fileHist' = file_outcome(outcomes).file
    /\ call' = [fn |-> fn, type |-> record_type, subject |-> Str(<<s>>),
                timestamp |-> now]
    /\ ret' = [type |-> "saved", warned |-> FALSE]

\* Both deployments save the question record of a submit.
PairSaveFeedback(s) ==
    /\ Len(sheetHist) < MaxHist
    /\ Len(fileHist) < MaxHist
    /\ PairSaved(save_feedback_to_history(Q1, <<"a">>, HistoryFeedback, s),
                 "save_feedback_to_history", "question", s)
    /\ UNCHANGED <<clock, histCache>>
    /\ QuizUnchanged

\* Both deployments save the summary record of a completion view.
PairSaveSummary(s) ==
    /\ Len(sheetHist) < MaxHist
    /\ Len(fileHist) < MaxHist
    /\ PairSaved(save_summary_to_history(HistorySummary(s)),
                 "save_summary_to_history", "summary", s)
    /\ UNCHANGED <<clock, histCache>>
    /\ QuizUnchanged

\* Both deployments delete by the same timestamp.
PairDelete(target_ts) ==
    /\ sheetHist' = delete_history_entry(sheetHist, target_ts, TRUE).rows
    /\ fileHist' = keep_others(fileHist, target_ts)
    /\ call' = [fn |-> "delete", timestamp |-> target_ts]
    /\ ret' = [type |-> "deleted",
               remote_removed |-> Len(sheetHist) - Len(sheetHist'),
               file_removed |-> Len(fileHist) - Len(fileHist')]
    /\ UNCHANGED <<clock, histCache>>
    /\ QuizUnchanged

PairNext ==
    \/ Tick
    \/ \E s \in HistorySubjects : PairSaveFeedback(s)
    \/ \E s \in HistorySubjects : PairSaveSummary(s)
    \/ \E ts \in 0..MaxClock : PairDelete(ts)

PairSpec == PairInit /\ [][PairNext]_vars

(***************************************************************************)
(* Properties of the history store.                                        *)
(***************************************************************************)
SaveCalls == {"save_feedback_to_history", "save_summary_to_history"}

\* The timestamps of a list of items never increase from front to back.
NewestFirst(items) ==
    \A i \in 1..Len(items), j \in 1..Len(items) :
        i < j => items[i].timestamp >= items[j].timestamp

\* C21: when a save that did not raise is followed by a run of the history
\* page that lists all subjects and renders, the page lists every persisted
\* record, newest first, with the record just saved at the top.
C21_ReadAfterAppend ==
    [][(/\ call.fn \in SaveCalls
        /\ ret # Raise
        /\ call'.fn = "read"
        /\ call'.filter = All
        /\ ret'.status = "ok")
       => (/\ Len(ret'.items) = HistLen
           /\ NewestFirst(ret'.items)
           /\ ret'.items # <<>>
           /\ Head(ret'.items).timestamp = call.timestamp
           /\ Head(ret'.items).type = call.type)]_vars


\* The items of a list that carry another timestamp than ts.
Others(items, ts) == SelectSeq(items, LAMBDA item : item.timestamp # ts)

\* The number of items of a list that carry the timestamp ts.
CountOf(items, ts) == Cardinality({i \in 1..Len(items) : items[i].timestamp = ts})

\* C22: when the page has listed all records and the delete button of a
\* listed record is pressed, and the delete reports success and the page
\* renders again, the new list holds fewer records of that timestamp and
\* the records of every other timestamp as before, in the same order.
C22_DeleteThenRead ==
    [][(/\ call.fn = "read"
        /\ call.filter = All
        /\ ret.status = "ok"
        /\ call'.fn = "delete"
        /\ CountOf(ret.items, call'.timestamp) > 0
        /\ ret'.rerun
        /\ ret'.status = "ok")
       => (/\ CountOf(ret'.items, call'.timestamp) < CountOf(ret.items, call'.timestamp)
           /\ Others(ret'.items, call'.timestamp) = Others(ret.items, call'.timestamp))]_vars


\* The store that delete_record works on: the worksheet when it is
\* configured, the file otherwise.
Targeted == IF HAS_SHEETS THEN sheetHist ELSE fileHist

\* C23: a delete_record for a timestamp that no record of the targeted
\* store carries ends with a message, not an exception, and leaves the
\* worksheet and the file as they were.
C23_DeleteNoMatch ==
    [][(call'.fn = "delete" /\ CountOf(Targeted, call'.timestamp) = 0)
       => (/\ ret'.type = "deleted"
           /\ sheetHist' = sheetHist
           /\ fileHist' = fileHist)]_vars

\* A delete that matched no row of a worksheet holding rows has been made.
C23_Witness ==
    /\ HAS_SHEETS
    /\ call.fn = "delete"
    /\ ret.message = "Entry deleted from Sheets."
    /\ ret.removed = 0
    /\ sheetHist # <<>>


\* C24: fed the same saves and deletes, the deployment with the worksheet
\* and the one with the file list the same records in the same order and in
\* the same shape, and a delete removes as many records from the one as
\* from the other.
C24_Interchangeable ==
    /\ remote_read(sheetHist) = file_read(fileHist)
    /\ ret.type = "deleted" => ret.remote_removed = ret.file_removed


\* The subject of the session that created a listed record: the subject
\* key of a question record, and the subject that the completion view put
\* into the summary, wherever the store keeps the summary.
CreatedFor(item) ==
    IF "content" \in DOMAIN item THEN item.content.d.subject ELSE item.subject

\* C25: a run of the page under a subject filter lists exactly the records
\* of its history that were created for that subject, in the same order.
C25_FilterBySubject ==
    (call.fn = "read" /\ call.filter # All /\ ret.status = "ok")
        => ret.items = SelectSeq(ret.history, LAMBDA item : CreatedFor(item) = call.filter)


\* The list a is the front part of the list b.
IsPrefix(a, b) == Len(a) <= Len(b) /\ SubSeq(b, 1, Len(a)) = a

\* C26: a save keeps every record that the worksheet and the file held, in
\* place and unaltered; it only adds at the end.
C26_AppendOnly ==
    [][(call'.fn \in SaveCalls /\ <<sheetHist, fileHist>>' # <<sheetHist, fileHist>>)
       => (IsPrefix(sheetHist, sheetHist') /\ IsPrefix(fileHist, fileHist'))]_vars


(***************************************************************************)
(* Properties of the quiz pages' use of the history store.                 *)
(***************************************************************************)
\* The history record r holds the exchange e of an attempt log.
RecordOf(r, e) ==
    /\ r.question_id = e.id
    /\ r.student_answer = e.student_answer
    /\ r.feedback = e.feedback

\* C27: whenever a run extends a session's attempt log, the same run adds
\* the question record of that exchange to the worksheet or to the file.
C27_EveryExchangePersisted ==
    [][\A s \in Subjects :
         Len(sess'[s].qa_log) > Len(sess[s].qa_log)
         => LET e == sess'[s].qa_log[Len(sess'[s].qa_log)] IN
            \/ /\ Len(sheetHist') = Len(sheetHist) + 1
               /\ IsPrefix(sheetHist, sheetHist')
               /\ RecordOf(json_loads_cell(sheetHist'[Len(sheetHist')].content), e)
            \/ /\ fileHist' # <<>>
               /\ RecordOf(fileHist'[Len(fileHist')], e)
               /\ \/ SubSeq(fileHist', 1, Len(fileHist') - 1) = fileHist
                  \/ Len(fileHist') = 1]_vars

\* C28: a submit during which the worksheet append failed and the warning
\* was shown leaves the feedback of the question and the new entry of the
\* attempt log in the session, and "Next question" is enabled.
C28_RemoteFailureKeepsGrading ==
    [][\A s \in Subjects, qid \in {Q1.id, Q2.id} :
         (/\ op'.name = "submit" /\ op'.subject = s /\ op'.qid = qid
          /\ op'.graded /\ op'.warned)
         => (/\ qid \in DOMAIN sess'[s].feedback
             /\ Len(sess'[s].qa_log) = Len(sess[s].qa_log) + 1
             /\ sess'[s].qa_log[Len(sess'[s].qa_log)].id = qid
             /\ ~next_disabled(s, qid)')]_vars

\* A submit has shown the warning and its record went to the file.
C28_Witness ==
    /\ op.name = "submit"
    /\ op.graded
    /\ op.warned
    /\ op.failure = "-"
    /\ fileHist # <<>>
    /\ op.qid \in DOMAIN sess[op.subject].feedback

\* C30: a completion view whose summary call raised leaves the session,
\* the worksheet, the file and the count of saved summaries as they were;
\* the summary is still None, so that the next completion view asks for it.
C30_SummaryFailureAborts ==
    [][\A s \in Subjects :
         (op'.subject = s /\ op'.summarized /\ op'.failure = "upstream")
         => (/\ sess'[s].final_summary = None
             /\ summary_missing(s)'
             /\ UNCHANGED <<sess, sheetHist, fileHist, summarySaves>>)]_vars

\* A completion view has failed to get its summary with the quiz answered.
C30_Witness ==
    /\ op.summarized
    /\ op.failure = "upstream"
    /\ sess[op.subject].final_summary = None
    /\ sess[op.subject].qa_log # <<>>


\* The messages with which delete_record reports a failure.
DeleteFailures == {"Failed to delete from Sheets", "Failed to delete"}

C31_QuestionsImmutable ==
    [][\A s \in Subjects :
         (sess[s] # InitSession /\ ~IsReset(op'))
         => (/\ QuestionsSeen(s)' = QuestionsSeen(s)
             /\ Cardinality(QuestionsSeen(s)') = 1)]_vars

\* The ids of a list of questions are pairwise distinct.
DistinctIds(questions) ==
    \A i \in 1..Len(questions), j \in 1..Len(questions) :
        questions[i].id = questions[j].id => i = j

\* C32: the list that load_questions returns holds no two questions with
\* the same id.
C32_NoDuplicateIds ==
    (call.fn = "load_questions" /\ ret.type = "list") => DistinctIds(ret.items)

\* The source that load_questions is to read, the worksheet when it is
\* configured and the file otherwise, is unreachable, missing or malformed.
BadSource(c) ==
    IF c.has_sheets
    THEN c.remote = Raise \/ questions_of(c.remote.items) = Raise
    ELSE c.file = None \/ load_from_file(c.file) = Raise

\* C33: load_questions raises whenever its source is unreachable, missing or
\* malformed.
C33_LoadFailsOnBadSource ==
    (call.fn = "load_questions" /\ BadSource(call)) => ret = Raise

\* The attempt log of a session agrees with its feedback map: no id twice,
\* the ids are the keys of the map, and each entry carries the feedback
\* stored under its id.
LogMatchesFeedback(s) ==
    LET log == sess[s].qa_log
        feedback == sess[s].feedback
    IN /\ \A i \in 1..Len(log), j \in 1..Len(log) : log[i].id = log[j].id => i = j
       /\ {log[i].id : i \in 1..Len(log)} = DOMAIN feedback
       /\ \A i \in 1..Len(log) : log[i].feedback = feedback[log[i].id]

\* C34: every run leaves the attempt log in agreement with the feedback
\* map, and a run that is not a reset keeps the entries the log had, in
\* their order, adding only at the end.
C34_LogAppendOnly ==
    [][\A s \in Subjects :
         /\ LogMatchesFeedback(s)'
         /\ ~IsReset(op') => IsPrefix(sess[s].qa_log, sess'[s].qa_log)]_vars

\* Two questions have been answered and graded, q1 before q2.
C34_Witness ==
    \E s \in Subjects :
        /\ Len(sess[s].qa_log) = 2
        /\ sess[s].qa_log[1].id = Q1.id
        /\ sess[s].qa_log[2].id = Q2.id
        /\ DOMAIN sess[s].feedback = {Q1.id, Q2.id}

\* The ids of the first n entries of a list, in order.
IdsOf(items, n) == [i \in 1..n |-> items[i].id]

\* C35: over a bank that stays as it is, a session at index k has in its
\* attempt log the first k questions of the bank in bank order, followed at
\* most by question k+1; a session past the last question has exactly the
\* bank's questions in its log.
C35_AnsweredInBankOrder ==
    \A s \in Subjects :
        LET QUESTIONS == load_questions(s, TRUE)
            k == sess[s].idx
            log == sess[s].qa_log
        IN /\ k <= Len(QUESTIONS)
           /\ Len(log) \in {k, k + 1}
           /\ Len(log) <= Len(QUESTIONS)
           /\ IdsOf(log, Len(log)) = IdsOf(QUESTIONS, Len(log))

\* A session over the two-question bank is past the last question with
\* both questions in its log.
C35_Witness ==
    \E s \in Subjects :
        /\ Len(load_questions(s, TRUE)) = 2
        /\ sess[s].idx = 2
        /\ Len(sess[s].qa_log) = 2

\* "Restart Quiz" can be pressed: the session is past the last question and
\* the completion view gets to render its summary.
ResetEnabled(s) ==
    /\ sess[s].idx >= Len(load_questions(s, TRUE))
    /\ sess[s].final_summary # None
    /\ sess[s].final_summary.type = "dict"

\* C40: every session comes, again and again, to its completion view with a
\* summary and the restart button, as long as the history stores have room
\* for its records.
C40_Progress ==
    \A s \in Subjects : []<>(ResetEnabled(s) \/ HistLen >= MaxHist)

(***************************************************************************)
(* Properties of the history stores under failures.                        *)
(***************************************************************************)
\* C36: a run of the history page whose remote read fails goes on with the
\* records of the history file, newest first, and does not fail.
C36_ReadFallsBack ==
    (call.fn = "read" /\ ret.fallback)
        => (ret.status = "ok" /\ ret.history = reverse(fileHist))

\* What get_history computes from the sheet as it is now.
FreshHistory == get_history(None, sheetHist, TRUE)

\* C37: the cached get_history result never predates a write to the History
\* sheet: a cache that is filled holds what the sheet holds now, and a page
\* run that lists the remote history lists the sheet as it is now.
C37_NoStaleCache ==
    /\ histCache # None => histCache = FreshHistory
    /\ (call.fn = "read" /\ HAS_SHEETS /\ ~ret.fallback)
         => ret.history = reverse(FreshHistory.items)

\* An append has cleared a filled cache and the sheet holds two rows.
C37_Witness ==
    /\ call.fn \in SaveCalls
    /\ ret # Raise
    /\ ret.dropped
    /\ histCache = None
    /\ Len(sheetHist) = 2

\* C38: a save whose remote append failed with the warning has left the
\* worksheet as it was and has put its record last in the file, with the
\* timestamp of the call and its type tag; and a delete with the worksheet
\* configured never touches the file.
C38_WriteFallsBackToFile ==
    [][/\ (call'.fn \in SaveCalls /\ ret' # Raise /\ ret'.warned)
          => (/\ sheetHist' = sheetHist
              /\ fileHist' # <<>>
              /\ fileHist'[Len(fileHist')].timestamp = call'.timestamp
              /\ fileHist'[Len(fileHist')].type = call'.type)
       /\ (call'.fn = "delete" /\ HAS_SHEETS) => fileHist' = fileHist]_vars

\* A summary whose remote append failed is the last record of the file,
\* next to a worksheet that holds an earlier record.
C38_Witness ==
    /\ call.fn = "save_summary_to_history"
    /\ ret # Raise
    /\ ret.warned
    /\ sheetHist # <<>>
    /\ fileHist # <<>>
    /\ fileHist[Len(fileHist)].type = "summary"
    /\ fileHist[Len(fileHist)].timestamp = call.timestamp

(***************************************************************************)
(* Properties of sessions of several subjects.                             *)
(***************************************************************************)
\* C39: a run of the quiz page of one subject (a view that may generate the
\* summary, a submit, an advance, a restart) leaves the index, answers,
\* feedback, attempt log and summary of every other subject as they were,
\* and a restart leaves the worksheet and the file of the history as they
\* were.
C39_SubjectScoped ==
    [][\A s \in ScopeSubjects :
         op'.subject = s
         => (/\ \A t \in ScopeSubjects \ {s} : sess'[t] = sess[t]
             /\ op'.name = "restart"
                  => (sheetHist' = sheetHist /\ fileHist' = fileHist))]_vars

\* Chemistry has just been restarted while Physics holds a graded answer
\* and the history holds a record.
C39_Witness ==
    /\ op.name = "restart"
    /\ op.subject = "Chemistry"
    /\ sess["Chemistry"] = InitSession
    /\ sess["Physics"].qa_log # <<>>
    /\ HistLen > 0

====
